---- MODULE Spec2Model ----
(***************************************************************************)
(* A model of dagather: the Dagather scheduler and register                *)
(* (multigather.py), the safe-call wrapper and the exception-handler       *)
(* resolution (tasktemplate.py), the sibling handle (sibling_tasks.py),    *)
(* the result object (result.py) and the transitive discard (util.py),     *)
(* running on asyncio tasks.                                               *)
(*                                                                         *)
(* The scheduler coroutine advances only in Invoke, Wake and               *)
(* CancelledFromOutside (from one `await wait(...)` to the next); a task   *)
(* advances only in TaskAwait, TaskFinish and TaskCancelled (from one      *)
(* suspension point to the next). Callbacks are inputs: what a body does   *)
(* in a step is drawn with \E. Bodies do not catch the CancelledError or   *)
(* the DiscardedTask they are handed.                                      *)
(*                                                                         *)
(* Spec is one call; SpecCancel adds the cancellation of the call by its   *)
(* caller, SpecLookup the lookups in the returned result; SpecRegister is  *)
(* the register calls on a new Dagather. SpecHandler is one call of        *)
(* templates without dependencies whose bodies raise, over the nested      *)
(* exception handlers; SpecFair is one call on an acyclic graph in which   *)
(* the event loop runs every step that stays ready.                        *)
(***************************************************************************)
EXTENDS Integers, Sequences, FiniteSets, TLC

\* The registered templates (TaskTemplate.name), and the bound on the number
\* of dependency edges of the graphs an invocation is tried on.
Templates == {"a", "b", "c"}
MaxEdges == 3

\* The bound on the nesting of the exception handlers resolved.
MaxDepth == 2

VARIABLES
    deps,               \* TaskTemplate.dependencies, by template
    handler,            \* TaskTemplate.exception_handler, by template
    pc,                 \* where Dagather.__call__ stands
    raised,             \* the exception __call__ raised to its caller
    inv_tasks,          \* inv_tasks / tasks: template -> its asyncio Task
    pending,            \* pending: the tasks handed to wait()
    not_ready,          \* not_ready: template -> dependencies still missing
    dependants,         \* dependants: template -> templates waiting for it
    discarded,          \* discarded
    intermediary,       \* intermediary: template name -> outcome value
    delayed_exception,  \* delayed_exception
    launches,           \* how many times mk_task ran for a template
    first_propagate,    \* the template whose task was the first to end
                        \* with a PropagateError ("-" while there is none)
    args,               \* args of the call
    kwargs,             \* kwargs of the call
    lookup,             \* the last DagatherResult.__getitem__ and its outcome
    callbacks,          \* Dagather._templates: name -> the named parameters
                        \* of TaskTemplate.callback
    kwarg_users         \* Dagather._kwarg_users

vars == <<deps, handler, pc, raised, inv_tasks, pending, not_ready,
          dependants, discarded, intermediary, delayed_exception, launches,
          first_propagate, args, kwargs, lookup, callbacks, kwarg_users>>

-----------------------------------------------------------------------------
(* Values *)

Empty == [x \in {} |-> x]

Put(d, k, v) == [x \in (DOMAIN d) \cup {k} |-> IF x = k THEN v ELSE d[x]]

Pop(d, k) == [x \in (DOMAIN d) \ {k} |-> d[x]]

\* A Python value: an exception instance or a plain value, and the template
\* whose task made it.
Value(cls, by) == [cls |-> cls, by |-> by]

None == Value("None", "-")

\* bool(v), as `if not delayed_exception` and `if delayed_exception` take it:
\* None is false, and so is an exception whose class defines __bool__ or
\* __len__ to say so.
Truthy(v) == v.cls \notin {"None", "FalsyError"}

\* {**d1, **d2}
Merge(d1, d2) ==
    [k \in (DOMAIN d1) \cup (DOMAIN d2) |-> IF k \in DOMAIN d2 THEN d2[k] ELSE d1[k]]

CancelPolicy == {"cancel_all", "discard_not_started", "discard_children", "continue_all"}

\* The cancel policy a PropagateError of a FalsyError is tried with.
FalsyPolicies == {"continue_all"}

ContinueResult(return_value, cancel_policy) ==
    [kind |-> "continue", val |-> return_value, policy |-> cancel_policy]

PropagateError(exception, cancel_policy) ==
    [kind |-> "propagate", val |-> exception, policy |-> cancel_policy]

IsPostErrorResult(r) == r.kind \in {"continue", "propagate"}

\* What Task.result() gives: a plain return value of _safe_call, a
\* PostErrorResult, or an exception raised by result() itself.
PlainResult(v) == [kind |-> "plain", val |-> v, policy |-> "-"]

TypeErrorResult(t) == [kind |-> "typeerror", val |-> Value("TypeError", t), policy |-> "-"]

CancelledResult(t) == [kind |-> "cancelled", val |-> Value("CancelledError", t), policy |-> "-"]

NoResult == [kind |-> "none", val |-> None, policy |-> "-"]

\* The classes an exception is an instance of.
Bases(cls) ==
    CASE cls = "CancelledError"    -> {"CancelledError", "BaseException"}
      [] cls = "KeyboardInterrupt" -> {"KeyboardInterrupt", "BaseException"}
      [] OTHER                     -> {cls, "Exception", "BaseException"}

IsInstance(exc, k) == k \in Bases(exc.cls)

-----------------------------------------------------------------------------
(* Exception handlers *)

LiteralHandler(pse) == [tag |-> "pse", pse |-> pse]

\* PropagateError itself, `partial(PropagateError, cancel_policy=p)` and
\* `partial(ContinueResult, cancel_policy=p)`: callables from the exception.
CallableHandler(mk, p) == [tag |-> "callable", mk |-> mk, policy |-> p]

MappingHandler(items) == [tag |-> "mapping", items |-> items]

\* A function that returns the handler h whatever the exception.
ConstHandler(h) == [tag |-> "callable", mk |-> "const", h |-> h]

\* handler(exc)
CallHandler(h, exc) ==
    CASE h.mk = "propagate" -> LiteralHandler(PropagateError(exc, h.policy))
      [] h.mk = "continue" -> LiteralHandler(ContinueResult(exc, h.policy))
      [] OTHER -> h.h

RECURSIVE handle_exception(_, _, _)
RECURSIVE handle_items(_, _, _)

\* handle_exception without lines 75-76: a PostErrorResult is the result
\* whatever the class of the exception.
handle_exception_NoBaseRule(h, exc, base_explicit) ==
    CASE h.tag = "pse" -> h.pse
      [] h.tag = "callable" ->
            handle_exception(CallHandler(h, exc), exc, base_explicit)
      [] OTHER -> handle_items(h.items, 1, exc)

handle_exception(h, exc, base_explicit) ==
    CASE h.tag = "pse" ->
            IF ~base_explicit /\ ~IsInstance(exc, "Exception")
            THEN PropagateError(exc, "cancel_all")
            ELSE h.pse
      [] h.tag = "callable" ->
            handle_exception(CallHandler(h, exc), exc, base_explicit)
      [] OTHER -> handle_items(h.items, 1, exc)

handle_items(items, i, exc) ==
    IF i > Len(items)
    THEN PropagateError(exc, "cancel_all")
    ELSE IF IsInstance(exc, items[i].cls)
         THEN handle_exception(items[i].h, exc, TRUE)
         ELSE handle_items(items, i + 1, exc)

DefaultHandler == CallableHandler("propagate", "cancel_all")

\* The handlers templates are registered with in the runs explored.
Handlers ==
    { DefaultHandler,
      MappingHandler(<< [cls |-> "CancelledError",
                         h |-> LiteralHandler(ContinueResult(Value("cancelled", "-"), "continue_all"))] >>),
      LiteralHandler(ContinueResult(None, "discard_children")) }

\* The handlers the resolution is tried on: PostErrorResults and partials
\* of the two classes, wrapped up to MaxDepth times in a function or in a
\* mapping of one or two entries.
BaseHandlers ==
    { LiteralHandler(ContinueResult(None, "continue_all")),
      LiteralHandler(PropagateError(Value("custom", "-"), "discard_children")) }
        \cup {CallableHandler(mk, p) : mk \in {"propagate", "continue"},
                                       p \in {"cancel_all", "continue_all"}}

MappingKeys == {"Exception", "BaseException", "CancelledError"}

Wrap(h) ==
    {ConstHandler(h)}
        \cup {MappingHandler(<<[cls |-> c, h |-> h]>>) : c \in MappingKeys}
        \cup {MappingHandler(<<[cls |-> "Exception",
                                h |-> LiteralHandler(ContinueResult(None, "continue_all"))],
                               [cls |-> c, h |-> h]>>) : c \in MappingKeys}

RECURSIVE NestedHandlers(_)
NestedHandlers(depth) ==
    IF depth = 0 THEN BaseHandlers
    ELSE NestedHandlers(depth - 1)
            \cup UNION {Wrap(h) : h \in NestedHandlers(depth - 1)}

-----------------------------------------------------------------------------
(* util.py *)

\* remove_keys_transitively that removes the seed alone.
remove_keys_seed(d, relation, seed, removed_keys_sink) ==
    [d |-> Pop(d, seed),
     sink |-> IF seed \in DOMAIN d THEN removed_keys_sink \cup {seed}
              ELSE removed_keys_sink]

\* remove_keys_transitively without the recursion: the seed and the keys
\* related to it directly.
remove_keys_shallow(d, relation, seed, removed_keys_sink) ==
    [d |-> [k \in (DOMAIN d) \ ({seed} \cup relation[seed]) |-> d[k]],
     sink |-> removed_keys_sink \cup (({seed} \cup relation[seed]) \cap DOMAIN d)]

RECURSIVE remove_keys_transitively(_, _, _, _)
RECURSIVE remove_children(_, _, _)

\* Both return the pair of the mapping d and the sink after the call.
remove_keys_transitively(d, relation, seed, removed_keys_sink) ==
    remove_children(
        [d |-> Pop(d, seed),
         sink |-> IF seed \in DOMAIN d THEN removed_keys_sink \cup {seed}
                  ELSE removed_keys_sink],
        relation, relation[seed])

remove_children(acc, relation, todo) ==
    IF todo = {} THEN acc
    ELSE LET c == CHOOSE x \in todo : TRUE
         IN  remove_children(
                 IF c \in DOMAIN acc.d
                 THEN remove_keys_transitively(acc.d, relation, c, acc.sink)
                 ELSE acc,
                 relation, todo \ {c})

-----------------------------------------------------------------------------
(* asyncio tasks *)

\* A task just made by create_task: its coroutine has not taken a step.
NewTask(a, kw) ==
    [state |-> "created", must_cancel |-> FALSE, result |-> NoResult,
     args |-> a, kw |-> kw]

\* Task.cancel(): nothing for a finished task, else the task is to get a
\* CancelledError at its next step.
CancelTask(task) ==
    IF task.state = "done" THEN task ELSE [task EXCEPT !.must_cancel = TRUE]

Launched == DOMAIN inv_tasks

Running(t) == t \in Launched /\ inv_tasks[t].state # "done"

-----------------------------------------------------------------------------
(* Dagather.__call__ *)

\* The variables of one invocation, as a record the steps of the loop pass on.
RunState ==
    [inv_tasks |-> inv_tasks, pending |-> pending, not_ready |-> not_ready,
     discarded |-> discarded, intermediary |-> intermediary,
     delayed_exception |-> delayed_exception, launches |-> launches,
     raised |-> raised, args |-> args, kwargs |-> kwargs]

\* filter_dict(intermediary, names of the dependencies)
filter_dict(origin, keys) ==
    [k \in keys |-> IF k \in DOMAIN origin THEN origin[k] ELSE Value("KeyError", k)]

\* pending.add(mk_task(st))
mk_task(R, st) ==
    [R EXCEPT !.inv_tasks =
                  Put(@, st, NewTask(R.args,
                                     Merge(filter_dict(R.intermediary, deps[st]),
                                           R.kwargs))),
              !.launches = [@ EXCEPT ![st] = @ + 1],
              !.pending = @ \cup {st}]

RECURSIVE mk_tasks(_, _)
mk_tasks(R, sts) ==
    IF sts = {} THEN R
    ELSE LET st == CHOOSE x \in sts : TRUE
         IN  mk_tasks(mk_task(R, st), sts \ {st})

\* ApplyCancelPolicy with a cancel_all that cancels no task.
ApplyCancelPolicy_NoCancel(R, st, policy) ==
    CASE policy \in {"cancel_all", "discard_not_started"} ->
            [R EXCEPT !.discarded = @ \cup DOMAIN R.not_ready,
                      !.not_ready = Empty]
      [] policy = "discard_children" ->
            LET r == remove_keys_transitively(R.not_ready, dependants, st, R.discarded)
            IN  [R EXCEPT !.not_ready = r.d, !.discarded = r.sink]
      [] OTHER -> R

\* ApplyCancelPolicy with a cancel_all that also puts the launched tasks it
\* cancels into discarded.
ApplyCancelPolicy_DiscardLaunched(R, st, policy) ==
    CASE policy = "cancel_all" ->
            [R EXCEPT !.discarded = @ \cup DOMAIN R.not_ready
                                      \cup {t \in DOMAIN R.inv_tasks :
                                               R.inv_tasks[t].state # "done"},
                      !.not_ready = Empty,
                      !.inv_tasks = [t \in DOMAIN @ |-> CancelTask(@[t])]]
      [] policy = "discard_not_started" ->
            [R EXCEPT !.discarded = @ \cup DOMAIN R.not_ready,
                      !.not_ready = Empty]
      [] policy = "discard_children" ->
            LET r == remove_keys_transitively(R.not_ready, dependants, st, R.discarded)
            IN  [R EXCEPT !.not_ready = r.d, !.discarded = r.sink]
      [] OTHER -> R

\* ApplyCancelPolicy with a discard_not_started that leaves not_ready as it
\* is (no not_ready.clear()).
ApplyCancelPolicy_KeepWaiting(R, st, policy) ==
    CASE policy = "cancel_all" ->
            [R EXCEPT !.discarded = @ \cup DOMAIN R.not_ready,
                      !.not_ready = Empty,
                      !.inv_tasks = [t \in DOMAIN @ |-> CancelTask(@[t])]]
      [] policy = "discard_not_started" ->
            [R EXCEPT !.discarded = @ \cup DOMAIN R.not_ready]
      [] policy = "discard_children" ->
            LET r == remove_keys_transitively(R.not_ready, dependants, st, R.discarded)
            IN  [R EXCEPT !.not_ready = r.d, !.discarded = r.sink]
      [] OTHER -> R

\* Lines 187-197: the cancel policy of a PostErrorResult of template st.
ApplyCancelPolicy(R, st, policy) ==
    CASE policy = "cancel_all" ->
            [R EXCEPT !.discarded = @ \cup DOMAIN R.not_ready,
                      !.not_ready = Empty,
                      !.inv_tasks = [t \in DOMAIN @ |-> CancelTask(@[t])]]
      [] policy = "discard_not_started" ->
            [R EXCEPT !.discarded = @ \cup DOMAIN R.not_ready,
                      !.not_ready = Empty]
      [] policy = "discard_children" ->
            LET r == remove_keys_transitively(R.not_ready, dependants, st, R.discarded)
            IN  [R EXCEPT !.not_ready = r.d, !.discarded = r.sink]
      [] OTHER -> R

\* RecordOutcome keeping the exception of the last PropagateError (no
\* `if not delayed_exception`).
RecordOutcome_Last(R, st, result) ==
    [R EXCEPT !.delayed_exception =
                  IF result.kind = "propagate" THEN result.val ELSE @,
              !.intermediary = Put(@, st, result.val)]

\* RecordOutcome recording the PostErrorResult itself, not the value it
\* carries (no `result = result.exception`, `result = result.return_value`).
RecordOutcome_Wrapper(R, st, result) ==
    [R EXCEPT !.delayed_exception =
                  IF result.kind = "propagate" /\ ~Truthy(@) THEN result.val ELSE @,
              !.intermediary = Put(@, st, IF IsPostErrorResult(result)
                                          THEN result ELSE result.val)]

\* Lines 199-207: the delayed exception and the outcome value recorded.
RecordOutcome(R, st, result) ==
    [R EXCEPT !.delayed_exception =
                  IF result.kind = "propagate" /\ ~Truthy(@) THEN result.val ELSE @,
              !.intermediary = Put(@, st, result.val)]

\* AdvanceDependants launching a dependant as soon as one of its
\* dependencies is done (no `if not not_ready[dependant]`).
AdvanceDependants_Eager(R, st) ==
    LET waiting == {d \in dependants[st] : d \in DOMAIN R.not_ready}
        R1 == [R EXCEPT !.not_ready = [d \in (DOMAIN @) \ waiting |-> @[d]]]
    IN  mk_tasks(R1, waiting)

\* AdvanceDependants that leaves a dependant it launches in not_ready (no
\* `del not_ready[dependant]`).
AdvanceDependants_KeepWaiting(R, st) ==
    LET waiting == {d \in dependants[st] : d \in DOMAIN R.not_ready}
        ready   == {d \in waiting : R.not_ready[d] \ {st} = {} /\ R.not_ready[d] # {}}
        R1 == [R EXCEPT !.not_ready =
                  [d \in DOMAIN @ |-> IF d \in waiting THEN @[d] \ {st} ELSE @[d]]]
    IN  mk_tasks(R1, ready)

\* Lines 209-216: the dependants that st was the last missing dependency of.
AdvanceDependants(R, st) ==
    LET waiting == {d \in dependants[st] : d \in DOMAIN R.not_ready}
        ready   == {d \in waiting : R.not_ready[d] \ {st} = {}}
        R1 == [R EXCEPT !.not_ready =
                  [d \in (DOMAIN @) \ ready |->
                      IF d \in waiting THEN @[d] \ {st} ELSE @[d]]]
    IN  mk_tasks(R1, ready)

\* Lines 183-216 for one done task; done.result() raises for a cancelled
\* task and for a task that raised.
ProcessDone(R, st) ==
    LET result == R.inv_tasks[st].result
    IN  IF result.kind \in {"cancelled", "typeerror"}
        THEN [R EXCEPT !.raised = result.val]
        ELSE LET R1 == IF IsPostErrorResult(result)
                       THEN ApplyCancelPolicy(R, st, result.policy)
                       ELSE R
             IN  AdvanceDependants(RecordOutcome(R1, st, result), st)

RECURSIVE ProcessAll(_, _, _)
ProcessAll(R, order, i) ==
    IF i > Len(order) \/ R.raised # None THEN R
    ELSE ProcessAll(ProcessDone(R, order[i]), order, i + 1)

\* Lines 166-170 and 218-220: the top of the loop and the end of the call.
\* LoopTop raising the delayed exception as soon as there is one, before
\* pending is empty.
LoopTop_RaiseEarly(R) ==
    CASE R.raised # None -> [pc |-> "result_raised", raised |-> R.raised]
      [] Truthy(R.delayed_exception) -> [pc |-> "raised", raised |-> R.delayed_exception]
      [] R.pending # {} -> [pc |-> "wait", raised |-> None]
      [] R.not_ready # Empty -> [pc |-> "cycle_error", raised |-> Value("CycleError", "-")]
      [] OTHER -> [pc |-> "returned", raised |-> None]

\* LoopTop without the test of not_ready at the end of the loop.
LoopTop_NoCycleCheck(R) ==
    CASE R.raised # None -> [pc |-> "result_raised", raised |-> R.raised]
      [] R.pending # {} -> [pc |-> "wait", raised |-> None]
      [] Truthy(R.delayed_exception) -> [pc |-> "raised", raised |-> R.delayed_exception]
      [] OTHER -> [pc |-> "returned", raised |-> None]

\* pc is "result_raised" when done.result() raised (line 185), "cycle_error"
\* at line 169, "raised" at line 219 and "returned" at line 220.
LoopTop(R) ==
    CASE R.raised # None -> [pc |-> "result_raised", raised |-> R.raised]
      [] R.pending # {} -> [pc |-> "wait", raised |-> None]
      [] R.not_ready # Empty -> [pc |-> "cycle_error", raised |-> Value("CycleError", "-")]
      [] Truthy(R.delayed_exception) -> [pc |-> "raised", raised |-> R.delayed_exception]
      [] OTHER -> [pc |-> "returned", raised |-> None]

Orders(S) ==
    {o \in [1..Cardinality(S) -> S] : \A i, j \in 1..Cardinality(S) : o[i] = o[j] => i = j}

SetRun(R) ==
    /\ inv_tasks' = R.inv_tasks
    /\ pending' = R.pending
    /\ not_ready' = R.not_ready
    /\ discarded' = R.discarded
    /\ intermediary' = R.intermediary
    /\ delayed_exception' = R.delayed_exception
    /\ launches' = R.launches
    /\ args' = R.args
    /\ kwargs' = R.kwargs
    /\ pc' = LoopTop(R).pc
    /\ raised' = LoopTop(R).raised

\* What register made and a call does not change.
registry == <<deps, handler, callbacks, kwarg_users>>

\* The calls tried: positional and keyword arguments of the caller. "x" is
\* no template name.
Calls ==
    {[args |-> <<Value("arg", "caller")>>,
      kwargs |-> [k \in {"x"} |-> Value("kwarg", "caller")]],
     [args |-> <<>>,
      kwargs |-> [k \in {"a"} |-> Value("kwarg", "caller")]],
     [args |-> <<Value("arg", "caller")>>,
      kwargs |-> [k \in {"x", "c"} |-> Value("kwarg", "caller")]]}

\* bad_keys with no key ever found bad.
bad_keys_Ignored(kw) == {}

\* Line 126: kwargs.keys() & self._templates.keys()
bad_keys(kw) == (DOMAIN kw) \cap (DOMAIN callbacks)

\* The call up to its first wait, or to the TypeError of line 128:
\* lines 123-170.
Invoke ==
    /\ pc = "start"
    /\ \E call \in Calls :
          IF bad_keys(call.kwargs) # {}
          THEN /\ pc' = "type_error"
               /\ raised' = Value("TypeError", "bad_keys")
               /\ args' = call.args
               /\ kwargs' = call.kwargs
               /\ UNCHANGED <<inv_tasks, pending, not_ready, dependants, discarded,
                              intermediary, delayed_exception, launches>>
          ELSE /\ dependants' = [t \in Templates |-> {st \in Templates : t \in deps[st]}]
               /\ LET roots == {st \in Templates : deps[st] = {}}
                      R0 == [RunState EXCEPT
                                !.args = call.args,
                                !.kwargs = call.kwargs,
                                !.not_ready = [st \in Templates \ roots |-> deps[st]]]
                  IN  SetRun(mk_tasks(R0, roots))
    /\ UNCHANGED <<registry, lookup, first_propagate>>

\* wait() returns the tasks that are done; lines 174-216 and the loop top.
Wake ==
    /\ pc = "wait"
    /\ LET done_tasks == {t \in pending : inv_tasks[t].state = "done"}
       IN  /\ done_tasks # {}
           /\ \E order \in Orders(done_tasks) :
                 SetRun(ProcessAll([RunState EXCEPT !.pending = @ \ done_tasks],
                                   order, 1))
    /\ UNCHANGED <<registry, lookup, dependants, first_propagate>>

\* cancel_tasks that cancels no task.
cancel_tasks_None(tasks) == tasks

\* Lines 177-178: for task in tasks: cancel_task(task, ...)
cancel_tasks(tasks) == [t \in DOMAIN tasks |-> CancelTask(tasks[t])]

\* The call is cancelled by its caller while it waits: wait() raises
\* CancelledError, lines 176-179.
CancelledFromOutside ==
    /\ pc = "wait"
    /\ inv_tasks' = cancel_tasks(inv_tasks)
    /\ pc' = "cancelled"
    /\ raised' = Value("CancelledError", "caller")
    /\ UNCHANGED <<registry, lookup, pending, not_ready, dependants, discarded,
                   intermediary, delayed_exception, launches, first_propagate,
                   args, kwargs>>

-----------------------------------------------------------------------------
(* A task: TaskTemplate._safe_call around the callback *)

NoTask == [state |-> "none"]

\* sibling_task that never finds a key discarded.
sibling_task_NoDiscarded(key) ==
    [raises |-> FALSE,
     task |-> IF key \in Launched THEN inv_tasks[key] ELSE NoTask]

\* SiblingTasks.task(key): DiscardedTask is raised for a discarded key, else
\* the task of the key or None.
sibling_task(key) ==
    IF key \in discarded
    THEN [raises |-> TRUE, task |-> NoTask]
    ELSE [raises |-> FALSE,
          task |-> IF key \in Launched THEN inv_tasks[key] ELSE NoTask]

\* SiblingTasks.state_of(key)
state_of(key) ==
    LET r == sibling_task(key)
    IN  CASE r.raises -> "discarded"
          [] r.task = NoTask -> "waiting"
          [] r.task.state = "done" -> "done"
          [] OTHER -> "running"

\* SiblingCancel that discards the key alone, not the templates that depend
\* on it.
SiblingCancel_KeyOnly(key) ==
    IF sibling_task(key).task # NoTask
    THEN [inv_tasks |-> [inv_tasks EXCEPT ![key] = CancelTask(@)],
          not_ready |-> not_ready, discarded |-> discarded]
    ELSE [inv_tasks |-> inv_tasks, not_ready |-> Pop(not_ready, key),
          discarded |-> discarded \cup ({key} \cap DOMAIN not_ready)]

\* SiblingCancel that also puts the key of a task it cancels into discarded.
SiblingCancel_DiscardLaunched(key) ==
    IF sibling_task(key).task # NoTask
    THEN [inv_tasks |-> [inv_tasks EXCEPT ![key] = CancelTask(@)],
          not_ready |-> not_ready, discarded |-> discarded \cup {key}]
    ELSE LET r == remove_keys_transitively(not_ready, dependants, key, discarded)
         IN  [inv_tasks |-> inv_tasks, not_ready |-> r.d, discarded |-> r.sink]

\* SiblingTasks.cancel(key), called by the body of a running task, on the
\* tasks, not_ready and discarded of the run. A discarded key raises
\* DiscardedTask in the caller instead (SiblingTasks.task).
SiblingCancel(key) ==
    IF sibling_task(key).task # NoTask
    THEN [inv_tasks |-> [inv_tasks EXCEPT ![key] = CancelTask(@)],
          not_ready |-> not_ready, discarded |-> discarded]
    ELSE LET r == remove_keys_transitively(not_ready, dependants, key, discarded)
         IN  [inv_tasks |-> inv_tasks, not_ready |-> r.d, discarded |-> r.sink]

\* What a body does with its siblings in one step: nothing, or one cancel.
SiblingOps == {"none"} \cup Templates

AfterOp(op) ==
    IF op = "none"
    THEN [inv_tasks |-> inv_tasks, not_ready |-> not_ready, discarded |-> discarded]
    ELSE SiblingCancel(op)

\* The PostErrorResults a body raises Abort with. A FalsyError is an
\* exception that is false as a bool.
AbortResults(k) ==
    {ContinueResult(Value("subst", k), p) : p \in CancelPolicy}
        \cup {PropagateError(Value("RuntimeError", k), p) : p \in CancelPolicy}
        \cup {PropagateError(Value("FalsyError", k), p) : p \in FalsyPolicies}

\* How a body ends: it returns a value, returns a PostErrorResult, raises
\* Abort(pse), or raises an exception of some class.
Endings(k) ==
    {[end |-> "return", pse |-> NoResult, cls |-> "-"],
     [end |-> "return_pse", pse |-> NoResult, cls |-> "-"],
     [end |-> "raise", pse |-> NoResult, cls |-> "ValueError"]}
        \cup {[end |-> "abort", pse |-> pse, cls |-> "-"] : pse \in AbortResults(k)}

\* TaskTemplate._safe_call: the result of the task of template k whose
\* callback ends with e.
safe_call(k, e) ==
    CASE e.end = "return" -> PlainResult(Value("ret", k))
      [] e.end = "return_pse" -> TypeErrorResult(k)
      [] e.end = "abort" -> e.pse
      [] OTHER -> handle_exception(handler[k], Value(e.cls, k), FALSE)

\* Task.__step when the coroutine ends: a task told to cancel while it was
\* running its last step is cancelled instead of getting the result; an
\* exception out of the coroutine is kept.
Finished(task, result) ==
    [task EXCEPT !.state = "done", !.must_cancel = FALSE,
                 !.result = IF task.must_cancel /\ result.kind # "typeerror"
                            THEN CancelledResult(result.val.by)
                            ELSE result]

\* Bookkeeping of the order in which tasks end: the first task to end with a
\* PropagateError.
NotePropagate(k) ==
    first_propagate' =
        IF first_propagate = "-" /\ inv_tasks'[k].result.kind = "propagate"
        THEN k ELSE first_propagate

\* The task of k has a step to take. The tasks a call leaves behind are
\* followed after the call was cancelled by its caller, not after it ended
\* with an exception of its own.
CanStep(k) ==
    /\ pc \in {"wait", "cancelled"}
    /\ k \in Launched
    /\ inv_tasks[k].state \in {"created", "suspended"}

\* The body of k runs up to its next await, doing op on the way.
TaskAwaitOp(k, op) ==
    /\ CanStep(k)
    /\ ~inv_tasks[k].must_cancel
    /\ op \in SiblingOps \ discarded
    /\ LET s == AfterOp(op)
       IN  /\ inv_tasks' = [s.inv_tasks EXCEPT ![k].state = "suspended"]
           /\ not_ready' = s.not_ready
           /\ discarded' = s.discarded
    /\ UNCHANGED <<registry, lookup, pc, raised, pending, dependants, intermediary,
                   delayed_exception, launches, first_propagate, args, kwargs>>

TaskAwait(k) == \E op \in SiblingOps : TaskAwaitOp(k, op)

\* The body of k runs to its end with e, doing op on the way.
TaskEnd(k, op, e) ==
    /\ CanStep(k)
    /\ ~inv_tasks[k].must_cancel
    /\ op \in SiblingOps \ discarded
    /\ e \in Endings(k)
    /\ LET s == AfterOp(op)
       IN  /\ inv_tasks' = [s.inv_tasks EXCEPT ![k] = Finished(@, safe_call(k, e))]
           /\ not_ready' = s.not_ready
           /\ discarded' = s.discarded
    /\ NotePropagate(k)
    /\ UNCHANGED <<registry, lookup, pc, raised, pending, dependants, intermediary,
                   delayed_exception, launches, args, kwargs>>

\* The body of k calls cancel for a discarded key: DiscardedTask is raised in
\* the body and ends it.
TaskDiscardedOp(k, op) ==
    /\ CanStep(k)
    /\ ~inv_tasks[k].must_cancel
    /\ op \in discarded
    /\ inv_tasks' = [inv_tasks EXCEPT ![k] =
          Finished(@, safe_call(k, [end |-> "raise", pse |-> NoResult,
                                    cls |-> "DiscardedTask"]))]
    /\ NotePropagate(k)
    /\ UNCHANGED <<registry, lookup, pc, raised, pending, not_ready, dependants,
                   discarded, intermediary, delayed_exception, launches, args,
                   kwargs>>

\* The body of k runs to its end, doing op on the way.
TaskFinishOp(k, op) ==
    \/ TaskDiscardedOp(k, op)
    \/ \E e \in Endings(k) : TaskEnd(k, op, e)

TaskFinish(k) == \E op \in SiblingOps : TaskFinishOp(k, op)

\* The step of a task that was told to cancel: a coroutine that has not
\* started is closed by the CancelledError thrown into it and the task is
\* cancelled; a suspended one gets it at its await, inside _safe_call.
TaskCancelled(k) ==
    /\ CanStep(k)
    /\ inv_tasks[k].must_cancel
    /\ inv_tasks' = [inv_tasks EXCEPT ![k] =
          [@ EXCEPT !.state = "done", !.must_cancel = FALSE,
                    !.result = IF inv_tasks[k].state = "created"
                               THEN CancelledResult(k)
                               ELSE safe_call(k, [end |-> "raise", pse |-> NoResult,
                                                  cls |-> "CancelledError"])]]
    /\ NotePropagate(k)
    /\ UNCHANGED <<registry, lookup, pc, raised, pending, not_ready, dependants,
                   discarded, intermediary, delayed_exception, launches, args,
                   kwargs>>

\* The classes of the exceptions a body raises where the resolution of the
\* handler is looked at.
ExcClasses == {"ValueError", "CancelledError", "KeyboardInterrupt"}

\* The body of k raises an exception of class cls, in a task that was not
\* told to cancel.
TaskRaise(k, cls) ==
    /\ CanStep(k)
    /\ ~inv_tasks[k].must_cancel
    /\ cls \in ExcClasses
    /\ inv_tasks' = [inv_tasks EXCEPT ![k] =
          Finished(@, safe_call(k, [end |-> "raise", pse |-> NoResult, cls |-> cls]))]
    /\ NotePropagate(k)
    /\ UNCHANGED <<registry, lookup, pc, raised, pending, not_ready, dependants,
                   discarded, intermediary, delayed_exception, launches, args,
                   kwargs>>

-----------------------------------------------------------------------------
(* DagatherResult *)

NoLookup == [item |-> "-", outcome |-> "-"]

Return(v) == [out |-> "return", val |-> v]

Raise(e) == [out |-> "raise", val |-> e]

\* The keys looked up: the templates and a key that is no template.
Items == Templates \cup {"zz"}

\* DagatherResult.keys()
keys(tasks) == DOMAIN tasks

\* getitem that does not look into discarded.
getitem_NoDiscarded(tasks, disc, item) ==
    IF item \notin DOMAIN tasks
    THEN Raise(Value("KeyError", item))
    ELSE LET ret == tasks[item].result
         IN  CASE tasks[item].state # "done" -> Raise(Value("InvalidStateError", item))
               [] ret.kind \in {"cancelled", "typeerror"} -> Raise(ret.val)
               [] ret.kind = "continue" -> Return(ret.val)
               [] ret.kind = "plain" -> Return(ret.val)
               [] OTHER -> Return(ret)

\* DagatherResult.__getitem__ of the result made of tasks and disc: what
\* Task.result() gives or raises, a ContinueResult replaced by its
\* return_value.
getitem(tasks, disc, item) ==
    IF item \notin DOMAIN tasks
    THEN IF item \in disc
         THEN Raise(Value("DiscardedTask", item))
         ELSE Raise(Value("KeyError", item))
    ELSE LET ret == tasks[item].result
         IN  CASE tasks[item].state # "done" -> Raise(Value("InvalidStateError", item))
               [] ret.kind \in {"cancelled", "typeerror"} -> Raise(ret.val)
               [] ret.kind = "continue" -> Return(ret.val)
               [] ret.kind = "plain" -> Return(ret.val)
               [] OTHER -> Return(ret)

\* result[item] on the DagatherResult(inv_tasks, discarded) the call returned.
Lookup(item) ==
    /\ pc = "returned"
    /\ lookup' = [item |-> item, outcome |-> getitem(inv_tasks, discarded, item)]
    /\ UNCHANGED <<registry, pc, raised, inv_tasks, pending, not_ready, dependants,
                   discarded, intermediary, delayed_exception, launches,
                   first_propagate, args, kwargs>>

-----------------------------------------------------------------------------
(* Dagather.register *)

\* The named parameters a callback can have: template names and "x".
Params == Templates \cup {"x"}

\* Register without lines 108-111: the templates registered before that
\* have the new name as a parameter are left as they are.
Register_NoRewrite(name, params) ==
    /\ pc = "register"
    /\ IF name \in DOMAIN callbacks
       THEN /\ raised' = Value("ValueError", name)
            /\ UNCHANGED registry
       ELSE LET dependencies == {q \in params : q \in DOMAIN callbacks}
                kw == params \ dependencies
                users == [k \in (DOMAIN kwarg_users) \cup kw |->
                             (IF k \in DOMAIN kwarg_users THEN kwarg_users[k] ELSE {})
                                 \cup (IF k \in kw THEN {name} ELSE {})]
            IN  /\ callbacks' = Put(callbacks, name, params)
                /\ handler' = Put(handler, name, DefaultHandler)
                /\ deps' = Put(deps, name, dependencies)
                /\ kwarg_users' = users
                /\ raised' = None
    /\ UNCHANGED <<pc, inv_tasks, pending, not_ready, dependants, discarded,
                   intermediary, delayed_exception, launches, first_propagate,
                   args, kwargs, lookup>>

\* Register without lines 86-87: a second callback of the same name takes
\* the place of the first.
Register_Overwrite(name, params) ==
    /\ pc = "register"
    /\ LET dependencies == {q \in params : q \in DOMAIN callbacks}
           kw == params \ dependencies
           users == [k \in (DOMAIN kwarg_users) \cup kw |->
                        (IF k \in DOMAIN kwarg_users THEN kwarg_users[k] ELSE {})
                            \cup (IF k \in kw THEN {name} ELSE {})]
           found == IF name \in DOMAIN users THEN users[name] ELSE {}
       IN  /\ callbacks' = Put(callbacks, name, params)
           /\ handler' = Put(handler, name, DefaultHandler)
           /\ deps' = [t \in (DOMAIN deps) \cup {name} |->
                          (IF t = name THEN dependencies ELSE deps[t])
                              \cup (IF t \in found THEN {name} ELSE {})]
           /\ kwarg_users' = Pop(users, name)
           /\ raised' = None
    /\ UNCHANGED <<pc, inv_tasks, pending, not_ready, dependants, discarded,
                   intermediary, delayed_exception, launches, first_propagate,
                   args, kwargs, lookup>>

\* dag.register(func) for a callback called name with the named parameters
\* params (lines 81-113); raised is what the call raised.
Register(name, params) ==
    /\ pc = "register"
    /\ IF name \in DOMAIN callbacks
       THEN /\ raised' = Value("ValueError", name)
            /\ UNCHANGED registry
       ELSE LET dependencies == {q \in params : q \in DOMAIN callbacks}
                kw == params \ dependencies
                users == [k \in (DOMAIN kwarg_users) \cup kw |->
                             (IF k \in DOMAIN kwarg_users THEN kwarg_users[k] ELSE {})
                                 \cup (IF k \in kw THEN {name} ELSE {})]
                found == IF name \in DOMAIN users THEN users[name] ELSE {}
            IN  /\ callbacks' = Put(callbacks, name, params)
                /\ handler' = Put(handler, name, DefaultHandler)
                /\ deps' = [t \in (DOMAIN deps) \cup {name} |->
                               (IF t = name THEN dependencies ELSE deps[t])
                                   \cup (IF t \in found THEN {name} ELSE {})]
                /\ kwarg_users' = Pop(users, name)
                /\ raised' = None
    /\ UNCHANGED <<pc, inv_tasks, pending, not_ready, dependants, discarded,
                   intermediary, delayed_exception, launches, first_propagate,
                   args, kwargs, lookup>>

-----------------------------------------------------------------------------
(* Specifications *)

RECURSIVE Closure(_, _)
\* The templates reached from the set S along rel, S included.
Closure(S, rel) ==
    LET n == S \cup UNION {rel[x] : x \in S}
    IN  IF n = S THEN S ELSE Closure(n, rel)

EdgeCount(g) == Cardinality({e \in Templates \X Templates : e[1] \in g[e[2]]})

Graphs == {g \in [Templates -> SUBSET Templates] : EdgeCount(g) <= MaxEdges}

\* No call has been made: the variables of __call__ before it starts.
NoCall ==
    /\ raised = None
    /\ inv_tasks = Empty
    /\ pending = {}
    /\ not_ready = Empty
    /\ dependants = [t \in Templates |-> {}]
    /\ discarded = {}
    /\ intermediary = Empty
    /\ delayed_exception = None
    /\ launches = [t \in Templates |-> 0]
    /\ first_propagate = "-"
    /\ args = <<>>
    /\ kwargs = Empty
    /\ lookup = NoLookup

\* Before a call: the templates as register left them (any dependency
\* relation can be registered, a template naming itself included: the
\* callback of a template has its dependencies as named parameters), all
\* with the default handler of the Dagather.
Init ==
    /\ deps \in Graphs
    /\ \E h \in Handlers : handler = [t \in Templates |-> h]
    /\ callbacks = deps
    /\ kwarg_users = Empty
    /\ pc = "start"
    /\ NoCall

Next ==
    \/ Invoke
    \/ Wake
    \/ \E k \in Templates : TaskAwait(k)
    \/ \E k \in Templates : TaskFinish(k)
    \/ \E k \in Templates : TaskCancelled(k)

\* One call that runs without being cancelled by its caller.
Spec == Init /\ [][Next]_vars

NextCancel ==
    \/ Next
    \/ CancelledFromOutside

\* One call that its caller may cancel while it waits.
SpecCancel == Init /\ [][NextCancel]_vars

NextLookup ==
    \/ Next
    \/ \E item \in Items : Lookup(item)

\* One call and the lookups in the result it returns.
SpecLookup == Init /\ [][NextLookup]_vars

\* Templates without dependencies, registered with a handler of any shape.
InitHandler ==
    /\ deps = [t \in Templates |-> {}]
    /\ \E h \in NestedHandlers(MaxDepth) : handler = [t \in Templates |-> h]
    /\ callbacks = deps
    /\ kwarg_users = Empty
    /\ pc = "start"
    /\ NoCall

NextHandler ==
    \/ Invoke
    \/ \E k \in Templates, cls \in ExcClasses : TaskRaise(k, cls)

\* One call up to its first wake-up, every body raising an exception: the
\* results _safe_call gets from handle_exception.
SpecHandler == InitHandler /\ [][NextHandler]_vars

\* The calls on the graphs without a dependency cycle, the templates
\* registered with the default handler.
InitAcyclic ==
    /\ Init
    /\ \A t \in Templates : t \notin Closure(deps[t], deps)
    /\ handler = [t \in Templates |-> DefaultHandler]

\* The wake-up of the scheduler as pending shows it: wait() returns when a
\* task in pending is done, and the done tasks leave pending. In a step of
\* Next this is Wake and nothing else: Wake always takes the done tasks out
\* of pending, and no task changes pending.
WakeUp ==
    /\ pc = "wait"
    /\ \E t \in pending : inv_tasks[t].state = "done"
    /\ pending' \in SUBSET Templates
    /\ pending' # pending

\* A body ends, or a task told to cancel gets its CancelledError.
TaskEnds ==
    \/ \E k \in Templates : TaskFinish(k)
    \/ \E k \in Templates : TaskCancelled(k)

\* One call in which the event loop keeps running what is ready and bodies
\* do not await forever: the call starts, the scheduler wakes up when a task
\* is done, and while some task can end, one eventually does.
SpecFair ==
    /\ InitAcyclic
    /\ [][Next]_vars
    /\ WF_vars(Invoke)
    /\ WF_pending(WakeUp)
    /\ WF_vars(TaskEnds)

\* A Dagather just constructed (lines 53-58).
InitRegister ==
    /\ deps = Empty
    /\ handler = Empty
    /\ callbacks = Empty
    /\ kwarg_users = Empty
    /\ pc = "register"
    /\ NoCall

NextRegister == \E name \in Templates, params \in SUBSET Params : Register(name, params)

\* The register calls on a Dagather, in any order.
SpecRegister == InitRegister /\ [][NextRegister]_vars

-----------------------------------------------------------------------------
(* Notions the properties are stated with *)

\* The templates t depends on, directly or not.
Ancestors(t) == Closure(deps[t], deps)

\* The templates that depend on s, directly or not.
Descendants(s) == Closure({t \in Templates : s \in deps[t]}, 
                          [x \in Templates |-> {t \in Templates : x \in deps[t]}])

OnCycle(t) == t \in Ancestors(t)

\* The templates on a dependency cycle or downstream of one.
CyclicComponent == {t \in Templates : \E u \in Ancestors(t) \cup {t} : OnCycle(u)}

\* The scheduler has taken the outcome of t from its task (lines 183-216).
Processed(t) == t \in DOMAIN intermediary

Ended == pc \in {"returned", "raised", "cycle_error", "result_raised"}

-----------------------------------------------------------------------------
(* C1 - C3 *)

\* C1: for every dependency edge (u is a dependency of v), v is launched only
\* after the task of u is done and the scheduler has recorded the outcome of
\* u in intermediary, so that v is called with that outcome; a template is
\* never launched while a dependency is waiting, running, unprocessed or
\* discarded.
C1_TopologicalOrder ==
    \A v \in Launched : \A u \in deps[v] :
        /\ u \in Launched
        /\ inv_tasks[u].state = "done"
        /\ Processed(u)
        /\ u \notin discarded
        /\ inv_tasks[v].kw[u] = intermediary[u]

C1_Witness ==
    \E v \in Launched : \E u \in deps[v] :
        /\ inv_tasks[v].state = "suspended"
        /\ Processed(u)
        /\ \E w \in DOMAIN not_ready : v \in not_ready[w]

\* C2: within one invocation a task is created at most once for a template,
\* and never for a template that is in discarded.
C2_AtMostOnce ==
    \A t \in Templates :
        /\ launches[t] <= 1
        /\ (t \in Launched) = (launches[t] = 1)
        /\ t \in discarded => launches[t] = 0

C2_Witness ==
    /\ pc = "returned"
    /\ \E t \in discarded, u \in Launched : launches[t] = 0 /\ launches[u] = 1 /\ u \in deps[t]

\* C3: when an invocation returns the result object or re-raises a propagated
\* exception, the launched and the discarded templates together are all the
\* templates, and no template is both launched and discarded.
C3_Partition ==
    pc \in {"returned", "raised"} =>
        /\ Launched \cup discarded = Templates
        /\ Launched \cap discarded = {}

C3_Witness ==
    /\ pc = "raised"
    /\ discarded # {}
    /\ Cardinality(Launched) >= 2
    /\ \E t \in Launched : inv_tasks[t].result.policy = "cancel_all"

-----------------------------------------------------------------------------
(* C4 *)

\* C4 as stated: a call on a graph with a dependency cycle ends with
\* CycleError listing exactly the templates on a cycle or downstream of one,
\* none of which was launched. (Calls that end because done.result() raised
\* are left aside, so that a violation does not rest on them.)
C4_Original ==
    (CyclicComponent # {} /\ Ended /\ pc # "result_raised") =>
        /\ pc = "cycle_error"
        /\ DOMAIN not_ready = CyclicComponent
        /\ Launched \cap CyclicComponent = {}

\* C4, amended: no template on a cycle or downstream of one is ever launched;
\* CycleError is raised when pending is empty while not_ready is not, and it
\* lists exactly the templates of the cyclic component that were not
\* discarded before; a call that returns or re-raises a propagated exception
\* has discarded the whole cyclic component.
C4_CycleError ==
    /\ Launched \cap CyclicComponent = {}
    /\ pc = "cycle_error" =>
          /\ raised = Value("CycleError", "-")
          /\ DOMAIN not_ready # {}
          /\ DOMAIN not_ready = CyclicComponent \ discarded
          /\ \A t \in Launched : Processed(t)
    /\ pc \in {"returned", "raised"} =>
          /\ not_ready = Empty
          /\ CyclicComponent \subseteq discarded

C4_Witness ==
    /\ pc = "cycle_error"
    /\ Launched # {}
    /\ \E t \in discarded \cap CyclicComponent : ~OnCycle(t)

-----------------------------------------------------------------------------
(* C5, C6 *)

\* The templates whose outcome the scheduler takes in this step.
NewlyProcessed == (DOMAIN intermediary') \ DOMAIN intermediary

Propagated(t) == t \in Launched /\ inv_tasks[t].result.kind = "propagate"

C6_FinishBeforeRaise ==
    /\ [](pc = "raised" =>
            /\ pending = {}
            /\ Templates \ discarded \subseteq Launched
            /\ \A t \in Launched : inv_tasks[t].state = "done" /\ Processed(t))
    /\ [][(NewlyProcessed # {} /\
            \A t \in NewlyProcessed : inv_tasks[t].result.policy \in {"-", "continue_all"}) =>
                /\ discarded' = discarded
                /\ \A t \in Launched : inv_tasks'[t] = inv_tasks[t]
                /\ \A t \in DOMAIN not_ready : t \in Launched' \/ t \in DOMAIN not_ready']_vars

C6_Witness ==
    /\ pc = "raised"
    /\ Launched = Templates
    /\ \E t, u \in Templates :
          /\ t \in deps[u]
          /\ inv_tasks[t].result.kind = "propagate"
          /\ inv_tasks[t].result.policy = "continue_all"
          /\ inv_tasks[u].result.kind = "plain"

-----------------------------------------------------------------------------
(* C7 - C10 *)

PolicyOf(t) == inv_tasks[t].result.policy

\* A PostErrorResult with policy p has been processed in this call.
PolicyProcessed(p) == \E s \in Templates : Processed(s) /\ PolicyOf(s) = p

\* C7: a step of the scheduler that applies discard_children (and no other
\* discarding policy) discards exactly the templates not yet launched that
\* depend, directly or not, on a template s whose policy is discard_children,
\* and none of them is launched; when s is the only task processed, every
\* template that does not depend on s keeps its task, its place in not_ready
\* and the dependencies it waits for.
C7_DiscardChildren ==
    [][(/\ NewlyProcessed # {}
        /\ \A s \in NewlyProcessed : PolicyOf(s) \in {"-", "continue_all", "discard_children"}) =>
            LET seeds == {s \in NewlyProcessed : PolicyOf(s) = "discard_children"}
                below == UNION {Descendants(s) : s \in seeds}
            IN  /\ discarded' = discarded \cup (below \ Launched)
                /\ below \cap Launched' = {}
                /\ \A s \in seeds : NewlyProcessed = {s} =>
                      \A t \in Templates \ (Descendants(s) \cup {s}) :
                          /\ t \in Launched => inv_tasks'[t] = inv_tasks[t]
                          /\ t \in DOMAIN not_ready =>
                                t \in DOMAIN not_ready' /\ not_ready'[t] = not_ready[t]
                          /\ (t \in discarded) = (t \in discarded')]_vars

C7_Witness ==
    /\ pc = "returned"
    /\ \E s, u, t \in Templates :
          /\ Processed(s) /\ PolicyOf(s) = "discard_children"
          /\ deps[u] = {s} /\ deps[t] = {s, u}
          /\ discarded = {u, t}

\* C8: once a PostErrorResult with policy cancel_all has been processed,
\* not_ready is empty, every template that was not launched is discarded,
\* every launched task is done or has been told to cancel, and no template is
\* launched any more; the step that processes it alone discards exactly the
\* templates then in not_ready and cancels every launched task.
C8_CancelAll ==
    /\ [](PolicyProcessed("cancel_all") =>
            /\ not_ready = Empty
            /\ Templates \ Launched \subseteq discarded
            /\ \A t \in Launched : inv_tasks[t].state = "done" \/ inv_tasks[t].must_cancel)
    /\ [][PolicyProcessed("cancel_all") => Launched' = Launched]_vars
    /\ [][\A s \in Templates : (NewlyProcessed = {s} /\ PolicyOf(s) = "cancel_all") =>
            /\ discarded' = discarded \cup DOMAIN not_ready
            /\ Launched' = Launched
            /\ \A t \in Launched : inv_tasks'[t] = CancelTask(inv_tasks[t])]_vars

C8_Witness ==
    /\ PolicyProcessed("cancel_all")
    /\ pc = "wait"
    /\ discarded # {}
    /\ \E t \in Launched : inv_tasks[t].state = "suspended" /\ inv_tasks[t].must_cancel

\* C9 as stated: once a PostErrorResult with policy discard_not_started has
\* been processed, the templates then in not_ready are discarded and nothing
\* is launched any more; the step that processes it changes no other task;
\* and the call does not end while a launched task is still running. (Calls
\* in which a callback returned a PostErrorResult are left aside.)
C9_Original ==
    /\ [](PolicyProcessed("discard_not_started") =>
            /\ not_ready = Empty
            /\ Templates \ Launched \subseteq discarded
            /\ (Ended /\ raised.cls # "TypeError") =>
                  \A t \in Launched : inv_tasks[t].state = "done")
    /\ [][PolicyProcessed("discard_not_started") => Launched' = Launched]_vars
    /\ [][\A s \in Templates :
            (NewlyProcessed = {s} /\ PolicyOf(s) = "discard_not_started") =>
                /\ discarded' = discarded \cup DOMAIN not_ready
                /\ inv_tasks' = inv_tasks]_vars

\* C10 as stated: a task that has been told to cancel and has not completed
\* ends with the result of its template's exception handler for the
\* CancelledError, also when it had not taken its first step.
C10_Original ==
    [][\A t \in Launched :
          (/\ inv_tasks[t].state # "done"
           /\ inv_tasks[t].must_cancel
           /\ inv_tasks'[t].state = "done") =>
              inv_tasks'[t].result =
                  handle_exception(handler[t], Value("CancelledError", t), FALSE)]_vars

-----------------------------------------------------------------------------
(* C11 - C13 *)

\* C11: a step in which the body of a task k calls cancel(t) for a template
\* t that is in not_ready discards exactly t and the templates that depend on
\* t, directly or not, none of which was launched; it cancels no task and
\* launches none, and every other template keeps its task, its place in
\* not_ready and the dependencies it waits for.
C11_SiblingDiscard ==
    [][\A k \in Templates, t \in DOMAIN not_ready :
          (TaskAwaitOp(k, t) \/ TaskFinishOp(k, t)) =>
              LET gone == {t} \cup Descendants(t)
              IN  /\ discarded' = discarded \cup gone
                  /\ gone \cap Launched = {}
                  /\ DOMAIN not_ready' = (DOMAIN not_ready) \ gone
                  /\ \A u \in DOMAIN not_ready' : not_ready'[u] = not_ready[u]
                  /\ Launched' = Launched
                  /\ \A u \in Launched \ {k} : inv_tasks'[u] = inv_tasks[u]
                  /\ ~inv_tasks'[k].must_cancel]_vars

\* A call that returned after a sibling discarded t and a template that
\* depends on t: no PostErrorResult was processed, the dependencies of t ran.
C11_Witness ==
    /\ pc = "returned"
    /\ \A u \in Launched : inv_tasks[u].result.kind = "plain"
    /\ \E t \in discarded :
          /\ deps[t] # {}
          /\ deps[t] \subseteq Launched
          /\ \E w \in Descendants(t) \ {t} : w \in discarded

\* C12: state_of(t) is discarded if t is in discarded, else waiting if t has
\* no task, else done if its task has completed, else running; and the state
\* of a template changes only from waiting to running, from running to done
\* and from waiting to discarded.
C12_StateOf ==
    /\ [](\A t \in Templates :
            state_of(t) =
                IF t \in discarded THEN "discarded"
                ELSE IF t \notin Launched THEN "waiting"
                ELSE IF inv_tasks[t].state = "done" THEN "done"
                ELSE "running")
    /\ [][\A t \in Templates :
            state_of(t)' # state_of(t) =>
                <<state_of(t), state_of(t)'>> \in
                    {<<"waiting", "running">>, <<"running", "done">>,
                     <<"waiting", "discarded">>}]_vars

C12_Witness ==
    /\ pc = "wait"
    /\ \E t, u, v \in Templates :
          /\ state_of(t) = "discarded"
          /\ state_of(u) = "running"
          /\ state_of(v) = "done"

\* The value the scheduler takes from the result of a task: the return
\* value, the return_value of a ContinueResult, the exception of a
\* PropagateError.
OutcomeValue(result) == result.val

\* C13: every launched template was called with the positional and the
\* keyword arguments of the caller and, for each of its dependencies d, the
\* outcome value of d under the name of d, and nothing else; the value is
\* never the PostErrorResult itself.
C13_CalledWith ==
    \A v \in Launched :
        /\ inv_tasks[v].args = args
        /\ DOMAIN inv_tasks[v].kw = deps[v] \cup DOMAIN kwargs
        /\ \A k \in DOMAIN kwargs : inv_tasks[v].kw[k] = kwargs[k]
        /\ \A d \in deps[v] :
              /\ inv_tasks[v].kw[d] = OutcomeValue(inv_tasks[d].result)
              /\ DOMAIN inv_tasks[v].kw[d] = {"cls", "by"}

C13_Witness ==
    /\ args # <<>>
    /\ \E v \in Launched : \E d, e \in deps[v] :
          /\ inv_tasks[d].result.kind = "continue"
          /\ inv_tasks[e].result.kind = "propagate"

-----------------------------------------------------------------------------
(* C14 - C16 *)

\* C14: when the call is cancelled by its caller while it waits, every
\* launched task that is not done is told to cancel and no other task
\* changes, the call ends with the CancelledError, and afterwards no template
\* is launched and a task that takes a step ends with it: no body goes on to
\* another suspension point.
C14_CancelledFromOutside ==
    /\ [](pc = "cancelled" =>
            /\ raised = Value("CancelledError", "caller")
            /\ \A t \in Launched : inv_tasks[t].state = "done" \/ inv_tasks[t].must_cancel)
    /\ [][(pc = "wait" /\ pc' = "cancelled") =>
            /\ Launched' = Launched
            /\ \A t \in Launched :
                  inv_tasks'[t] =
                      IF inv_tasks[t].state = "done" THEN inv_tasks[t]
                      ELSE [inv_tasks[t] EXCEPT !.must_cancel = TRUE]]_vars
    /\ [][pc = "cancelled" =>
            /\ pc' = "cancelled"
            /\ raised' = raised
            /\ Launched' = Launched
            /\ launches' = launches
            /\ \A t \in Launched :
                  inv_tasks'[t] # inv_tasks[t] =>
                      /\ inv_tasks[t].state # "done"
                      /\ inv_tasks'[t].state = "done"]_vars

\* After the cancellation a suspended task has ended with the result of the
\* handler for the CancelledError, a task that had not started has been
\* cancelled, and a template is still in not_ready.
C14_Witness ==
    /\ pc = "cancelled"
    /\ not_ready # Empty
    /\ \A t \in Launched : inv_tasks[t].state = "done"
    /\ \E t, u \in Launched :
          /\ inv_tasks[t].result = PropagateError(Value("CancelledError", t), "cancel_all")
          /\ inv_tasks[u].result = CancelledResult(u)

\* C15 as stated: when the call ends with CycleError or with the TypeError
\* of a callback that returned a PostErrorResult, no task it launched is
\* still running.
C15_Original ==
    (pc = "cycle_error" \/ (pc = "result_raised" /\ raised.cls = "TypeError")) =>
        \A t \in Launched : inv_tasks[t].state = "done"

\* C16: a call whose keyword arguments include a template name ends with
\* the TypeError of line 128 with no task launched and the variables of the
\* run as they were before the call; a call without such a keyword never
\* ends with this error.
C16_ArgumentCollision ==
    /\ pc = "type_error" =>
          /\ raised = Value("TypeError", "bad_keys")
          /\ (DOMAIN kwargs) \cap Templates # {}
          /\ Launched = {}
          /\ \A t \in Templates : launches[t] = 0
          /\ pending = {}
          /\ not_ready = Empty
          /\ discarded = {}
          /\ intermediary = Empty
    /\ (pc # "start" /\ (DOMAIN kwargs) \cap Templates # {}) => pc = "type_error"
    /\ (DOMAIN kwargs) \cap Templates = {} =>
          /\ pc # "type_error"
          /\ raised # Value("TypeError", "bad_keys")

C16_Witness ==
    /\ pc = "type_error"
    /\ DOMAIN kwargs = {"x", "c"}
    /\ \E t \in Templates : deps[t] = {}

-----------------------------------------------------------------------------
(* C17, C18 *)

\* The templates mk_task ran for in this call.
LaunchedInRun == {t \in Templates : launches[t] >= 1}

\* C17: the keys of the result object the call returns are exactly the
\* templates launched in the call; a lookup of a template that was discarded
\* and not launched raises DiscardedTask, a lookup of a key that was neither
\* launched nor discarded raises KeyError.
C17_KeysAndLookup ==
    /\ pc = "returned" => keys(inv_tasks) = LaunchedInRun
    /\ lookup # NoLookup =>
          /\ (lookup.item \in discarded \ LaunchedInRun) =>
                lookup.outcome = Raise(Value("DiscardedTask", lookup.item))
          /\ (lookup.item \notin discarded \cup LaunchedInRun) =>
                lookup.outcome = Raise(Value("KeyError", lookup.item))
          /\ lookup.item \in LaunchedInRun => lookup.outcome.out = "return"

C17_Witness ==
    /\ lookup # NoLookup
    /\ lookup.outcome = Raise(Value("DiscardedTask", lookup.item))
    /\ LaunchedInRun # {}
    /\ discarded \cup LaunchedInRun = Templates

\* C18 as stated: a lookup of a launched template gives the value its
\* callback returned, the return_value of its ContinueResult or the
\* exception of its PropagateError.
C18_Original ==
    (lookup # NoLookup /\ lookup.item \in LaunchedInRun) =>
        lookup.outcome = Return(OutcomeValue(inv_tasks[lookup.item].result))

-----------------------------------------------------------------------------
(* C19, C20 *)

\* C19: whatever the order of the register calls, a registered template
\* depends on exactly the registered templates whose names are among the
\* named parameters of its callback, itself included, and _kwarg_users
\* holds, for each parameter name that is no template, the templates that
\* have it.
C19_OrderIndependent ==
    /\ DOMAIN deps = DOMAIN callbacks
    /\ \A t \in DOMAIN callbacks : deps[t] = callbacks[t] \cap DOMAIN callbacks
    /\ kwarg_users =
          [k \in (UNION {callbacks[t] : t \in DOMAIN callbacks}) \ DOMAIN callbacks |->
              {t \in DOMAIN callbacks : k \in callbacks[t]}]

\* All registered, two templates that depend on each other (one of them was
\* registered first) and one that depends on itself.
C19_Witness ==
    /\ DOMAIN callbacks = Templates
    /\ deps["a"] = {"b"}
    /\ deps["b"] = {"a"}
    /\ "c" \in deps["c"]
    /\ "x" \in DOMAIN kwarg_users

\* C20: a register call for a name that is registered raises ValueError and
\* leaves the templates, their callbacks, dependencies and handlers and
\* _kwarg_users as they were; no other register call raises.
C20_DuplicateName ==
    [][\A name \in Templates, params \in SUBSET Params :
          Register(name, params) =>
              IF name \in DOMAIN callbacks
              THEN /\ raised' = Value("ValueError", name)
                   /\ callbacks' = callbacks
                   /\ deps' = deps
                   /\ handler' = handler
                   /\ kwarg_users' = kwarg_users
              ELSE /\ raised' = None
                   /\ name \in DOMAIN callbacks']_vars

C20_Witness ==
    /\ raised = Value("ValueError", "a")
    /\ DOMAIN callbacks = {"a", "b"}
    /\ "a" \in deps["b"]
    /\ "c" \in DOMAIN kwarg_users

-----------------------------------------------------------------------------
(* C21, C22 *)

RECURSIVE Matched(_, _)
RECURSIVE OwnResult(_, _)

\* An entry of a mapping matched the class of exc on the way from the
\* handler h to a PostErrorResult.
Matched(h, exc) ==
    CASE h.tag = "pse" -> FALSE
      [] h.tag = "callable" -> Matched(CallHandler(h, exc), exc)
      [] OTHER -> \E i \in 1..Len(h.items) : IsInstance(exc, h.items[i].cls)

\* What the handler h itself says for exc: the PostErrorResult it is or
\* returns, in a mapping the one of the first entry that matches, and
\* PropagateError(exc) when a mapping has no entry for exc.
OwnResult(h, exc) ==
    CASE h.tag = "pse" -> h.pse
      [] h.tag = "callable" -> OwnResult(CallHandler(h, exc), exc)
      [] OTHER ->
            LET hits == {i \in 1..Len(h.items) : IsInstance(exc, h.items[i].cls)}
            IN  IF hits = {} THEN PropagateError(exc, "cancel_all")
                ELSE OwnResult(h.items[CHOOSE i \in hits : \A j \in hits : i <= j].h, exc)

\* C21: when a body raises an exception that is no instance of Exception,
\* the result of its task is PropagateError of that exception with cancel_all
\* if no entry of a mapping matched its class on the way through the
\* handler, whatever PostErrorResult the handler is or returns; if an entry
\* matched, it is the result the handler itself gives.
C21_SystemExceptions ==
    [][\A k \in Templates, cls \in ExcClasses :
          (TaskRaise(k, cls) /\ ~IsInstance(Value(cls, k), "Exception")) =>
              inv_tasks'[k].result =
                  IF Matched(handler[k], Value(cls, k))
                  THEN OwnResult(handler[k], Value(cls, k))
                  ELSE PropagateError(Value(cls, k), "cancel_all")]_vars

\* With a mapping that has an entry for Exception and one for
\* CancelledError: a CancelledError got the result of its entry, a
\* KeyboardInterrupt was propagated.
C21_Witness ==
    /\ \E t \in Templates :
          /\ handler[t].tag = "mapping"
          /\ handler[t].items[1].cls = "Exception"
    /\ \E k, j \in Launched :
          /\ inv_tasks[k].result.kind = "continue"
          /\ inv_tasks[k].result.val = Value("CancelledError", k)
          /\ inv_tasks[j].result = PropagateError(Value("KeyboardInterrupt", j), "cancel_all")

\* C22 as stated: when a body raises Abort(pse), the result of its task is
\* pse, whatever the handler of the template.
C22_Original ==
    [][\A k \in Templates, op \in SiblingOps :
          \A pse \in AbortResults(k) :
              TaskEnd(k, op, [end |-> "abort", pse |-> pse, cls |-> "-"]) =>
                  inv_tasks'[k].result = pse]_vars

-----------------------------------------------------------------------------
(* C23, C24 *)

\* C23: while the scheduler waits, every template is in exactly one of
\* not_ready, inv_tasks and discarded.
C23_ExactlyOne ==
    pc = "wait" =>
        \A t \in Templates :
            /\ t \in (DOMAIN not_ready) \cup Launched \cup discarded
            /\ ~(t \in DOMAIN not_ready /\ t \in Launched)
            /\ ~(t \in DOMAIN not_ready /\ t \in discarded)
            /\ ~(t \in Launched /\ t \in discarded)

C23_Witness ==
    /\ pc = "wait"
    /\ \E t, u, v \in Templates :
          /\ t \in DOMAIN not_ready
          /\ u \in Launched /\ inv_tasks[u].state = "suspended"
          /\ v \in discarded

\* C24 as stated: the step that applies cancel_all puts every task then
\* running into discarded and cancels it.
C24_Original ==
    [][\A s \in Templates :
          (NewlyProcessed = {s} /\ PolicyOf(s) = "cancel_all") =>
              \A t \in Launched :
                  inv_tasks[t].state # "done" =>
                      /\ t \in discarded'
                      /\ inv_tasks'[t].must_cancel]_vars

\* C24, amended: no launched template is ever in discarded; the step that
\* applies cancel_all tells every task then running to cancel and leaves it
\* in inv_tasks and out of discarded, which gets the templates of not_ready
\* and no other.
C24_LaunchedNeverDiscarded ==
    /\ [](Launched \cap discarded = {})
    /\ [][\A s \in Templates :
            (NewlyProcessed = {s} /\ PolicyOf(s) = "cancel_all") =>
                /\ discarded' \ discarded = DOMAIN not_ready
                /\ \A t \in Launched :
                      inv_tasks[t].state # "done" =>
                          /\ inv_tasks'[t].must_cancel
                          /\ t \in Launched'
                          /\ t \notin discarded']_vars

\* A task that was running when cancel_all was applied has ended with its
\* CancelledError and is not in discarded, a template that waited is.
C24_Witness ==
    /\ PolicyProcessed("cancel_all")
    /\ discarded # {}
    /\ \E t \in Launched \ discarded :
          inv_tasks[t].result = PropagateError(Value("CancelledError", t), "cancel_all")

-----------------------------------------------------------------------------
(* C25 *)

\* The call has ended: it returned, or raised to its caller.
CallEnded == pc \in {"returned", "raised", "result_raised", "type_error", "cycle_error"}

\* C25: on a graph without a dependency cycle, when every task that can take
\* a step eventually ends, the call eventually ends, it never raises
\* CycleError, and when it returns or raises the delayed exception not_ready
\* is empty, whatever the cancel policies and the sibling cancels.
C25_Terminates ==
    /\ <>(CyclicComponent = {} => CallEnded)
    /\ [](CyclicComponent = {} => pc # "cycle_error")
    /\ [](CyclicComponent = {} => (pc \in {"returned", "raised"} => not_ready = Empty))

\* A call on a chain of three templates that returned after a sibling
\* cancel discarded the last one.
C25_Witness ==
    /\ CyclicComponent = {}
    /\ pc = "returned"
    /\ \E t, u, v \in Templates :
          /\ deps[u] = {t} /\ deps[v] = {u}
          /\ Launched = {t, u}
          /\ discarded = {v}

====
